---- MODULE Spec2Model ----
(***************************************************************************)
(* Model of src/backend/main.py: the POST /api/ask handler (the first,     *)
(* routed definition of ask_question), the prompt builder                  *)
(* create_educational_prompt, the GEMINI_ERRORS counter and the exception  *)
(* handlers that turn a raised HTTPException into a JSON response.         *)
(*                                                                         *)
(* Strings are sequences of tokens: a token is one character of a          *)
(* variable text ("a", "x", "1") or one fixed literal of the source.  The  *)
(* empty Python string is the empty sequence.  Python values that may be   *)
(* None, or attributes that may not exist, are tagged records              *)
(* [tag, val]: tag "missing" (the attribute does not exist), "none"        *)
(* (None), "str", "list" or "obj".                                         *)
(***************************************************************************)
EXTENDS Naturals, Sequences, FiniteSets, TLC

VARIABLES pc, request, prompt, calls, result, answers, failures, replies,
          GEMINI_ERRORS

vars == <<pc, request, prompt, calls, result, answers, failures, replies,
          GEMINI_ERRORS>>

(* ------------------------------ bounds ---------------------------------- *)
MaxLen == 1        \* longest question / topic text, in characters
MaxParts == 2      \* most fragments in the first candidate's content
MaxCands == 2      \* most candidates in a result
NumClients == 2    \* concurrent requests in SpecConc

Times == {9, 10}   \* clock readings, in seconds: one and two digits
Chars == {"a", "b"}

(* ------------------------- Python value helpers ------------------------- *)
Missing == [tag |-> "missing", val |-> <<>>]
None == [tag |-> "none", val |-> <<>>]
Str(s) == [tag |-> "str", val |-> s]
List(l) == [tag |-> "list", val |-> l]
Obj(o) == [tag |-> "obj", val |-> o]

\* getattr(o, name, default): the default only when the attribute is missing.
GetAttr(o, name, default) ==
    IF o[name].tag = "missing" THEN default ELSE o[name]

\* Python truthiness of the values used here.
Truthy(v) ==
    CASE v.tag = "missing" -> FALSE
      [] v.tag = "none" -> FALSE
      [] v.tag = "str" -> v.val # <<>>
      [] v.tag = "list" -> v.val # <<>>
      [] v.tag = "obj" -> TRUE

\* a or b
Or(a, b) == IF Truthy(a) THEN a ELSE b

SeqsUpTo(S, n) == UNION {[1..k -> S] : k \in 0..n}

RECURSIVE Digits(_)
\* str(n) for a natural number: its decimal digits, most significant first.
Digits(n) ==
    LET d == <<"0", "1", "2", "3", "4", "5", "6", "7", "8", "9">>
    IN IF n < 10 THEN <<d[n + 1]>> ELSE Digits(n \div 10) \o <<d[(n % 10) + 1]>>

\* str(x) of a finish_reason inside an f-string: None prints as "None".
StrOf(v) == IF v.tag = "str" THEN v.val ELSE <<"None">>

(* ---------------------------- prompt builder ---------------------------- *)
\* The fixed texts of lines 378-392, one token each (accents dropped).
base_prompt == <<"Voce e um assistente educacional ... DIRETRIZES: 1..6\n">>
TopicLabel == "\nTOPICO ESPECIFICO: "
QuestionLabel == "\nPERGUNTA DO ESTUDANTE: "
AnswerMarker == "\n\nRESPOSTA:"

\* A mutant of create_educational_prompt: the topic line after the question.
create_educational_prompt_topic_last(question, topic) ==
    LET tail == IF Truthy(topic)
                THEN <<TopicLabel>> \o topic.val \o <<"\n">>
                ELSE <<>>
    IN base_prompt \o <<QuestionLabel>> \o question \o tail \o <<AnswerMarker>>

\* Lines 374-394.
create_educational_prompt(question, topic) ==
    LET withTopic == IF Truthy(topic)
                     THEN base_prompt \o <<TopicLabel>> \o topic.val \o <<"\n">>
                     ELSE base_prompt
    IN withTopic \o <<QuestionLabel>> \o question \o <<AnswerMarker>>

(* ------------------------------- inputs --------------------------------- *)
\* QuestionRequest (lines 82-85): question has min_length 1, the two
\* optional fields default to None and accept any string, the empty one too.
Questions == SeqsUpTo(Chars, MaxLen) \ {<<>>}
Topics == {None} \cup {Str(s) : s \in SeqsUpTo(Chars, MaxLen)}
ConversationIds == {None, Str(<<>>), Str(<<"c", "7">>)}
Requests == [question : Questions, topic : Topics, conversation_id : ConversationIds]

\* What model.generate_content may return.  A content fragment optionally
\* carries text; a candidate optionally carries finish_reason and content.
Fragments == [text : {Missing, Str(<<>>), Str(<<"x">>), Str(<<"y">>)}]
Contents == {Missing, None, Obj([parts |-> Missing]), Obj([parts |-> None])}
            \cup {Obj([parts |-> List(l)]) : l \in SeqsUpTo(Fragments, MaxParts)}
FinishReasons == {Missing, None, Str(<<"STOP">>)}
FirstCandidates == [finish_reason : FinishReasons, content : Contents]
LaterCandidates ==
    { [finish_reason |-> Str(<<"MAX_TOKENS">>),
       content |-> Obj([parts |-> List(<<[text |-> Str(<<"y">>)]>>)])],
      [finish_reason |-> Missing, content |-> Missing] }
CandidateLists ==
    {<<>>} \cup {<<c>> \o l : c \in FirstCandidates,
                              l \in SeqsUpTo(LaterCandidates, MaxCands - 1)}
\* Shape B: the text is carried by the candidates alone.
ShapeB == [candidates : {None} \cup {List(l) : l \in CandidateLists},
           text : {Missing}]
\* Shape A: a direct scalar text field, with no candidate carrying it.
ShapeA == [candidates : {None, List(<<>>)},
           text : {None, Str(<<>>), Str(<<"o", "k">>)}]
Responses == ShapeB \cup ShapeA
\* str(e) of the exceptions the external call may raise.
Errors == {<<"deadline exceeded">>, <<"quota exceeded">>}

\* The small inputs of the concurrent specification.
ConcRequests ==
    { [question |-> <<"a">>, topic |-> None, conversation_id |-> None],
      [question |-> <<"b">>, topic |-> Str(<<"a">>),
       conversation_id |-> Str(<<"c", "7">>)] }
ConcResponses ==
    { [candidates |-> None, text |-> Missing],
      [candidates |-> List(<<>>), text |-> Missing],
      [candidates |-> List(<<[finish_reason |-> Str(<<"STOP">>),
                              content |-> Obj([parts |-> List(<<>>)])]>>),
       text |-> Missing],
      [candidates |-> List(<<[finish_reason |-> Str(<<"STOP">>),
                              content |-> Obj([parts |-> List(
                                  <<[text |-> Str(<<"x">>)],
                                    [text |-> Str(<<"y">>)]>>)])]>>),
       text |-> Missing] }
ConcErrors == {<<"deadline exceeded">>}

(* ----------------------------- ask_question ----------------------------- *)
RECURSIVE Join(_)
\* "".join(...) over the fragments' text contributions, in list order.
Join(ps) ==
    IF ps = <<>> THEN <<>>
    ELSE Or(GetAttr(Head(ps), "text", Str(<<>>)), Str(<<>>)).val \o Join(Tail(ps))

\* A mutant of extract_text: the text of the first fragment alone.
extract_text_first_fragment(candidate) ==
    LET parts == GetAttr(candidate, "content", None)
    IN IF Truthy(parts) /\ Truthy(GetAttr(parts.val, "parts", None))
       THEN Join(SubSeq(GetAttr(parts.val, "parts", None).val, 1, 1))
       ELSE <<>>

\* Lines 276-283: the text of one candidate.
extract_text(candidate) ==
    LET parts == GetAttr(candidate, "content", None)
    IN IF Truthy(parts) /\ Truthy(GetAttr(parts.val, "parts", None))
       THEN Join(GetAttr(parts.val, "parts", None).val)
       ELSE <<>>

\* Line 299: request.conversation_id or f"conv_{int(time.time())}"
conversation_id_of(req, t) ==
    Or(req.conversation_id, Str(<<"conv_">> \o Digits(t))).val

HTTPException(status_code, detail) ==
    [status_code |-> status_code, detail |-> detail]

Returned(a) == [kind |-> "return", answer |-> <<a>>, exc |-> <<>>, msg |-> <<>>, inc |-> 0]
RaisedHTTP(e, n) == [kind |-> "http", answer |-> <<>>, exc |-> <<e>>, msg |-> <<>>, inc |-> n]
RaisedOther(m) == [kind |-> "exc", answer |-> <<>>, exc |-> <<>>, msg |-> m, inc |-> 0]

\* Line 264: not response.candidates
no_candidates(response) == ~Truthy(response.candidates)

\* A mutant of first_candidate: the last candidate instead of the first.
last_candidate(candidates) == candidates[Len(candidates)]

\* Line 272: response.candidates[0]
first_candidate(candidates) == candidates[1]

\* A mutant of not_text: the empty text is let through.
not_text_never(text) == FALSE

\* Line 285: not text
not_text(text) == text = <<>>

NoCandidatesDetail == <<"Modelo nao retornou nenhuma resposta">>
EmptyGenerationDetail(finish_reason) ==
    <<"Modelo nao retornou texto (finish_reason=">> \o StrOf(finish_reason) \o <<")">>
ProcessingErrorDetail(msg) == <<"Erro ao processar pergunta: ">> \o msg

\* Lines 263-306: the try block after generate_content has returned response.
normalize(req, response, t1, t2) ==
    IF no_candidates(response)
    THEN RaisedHTTP(HTTPException(500, NoCandidatesDetail), 1)
    ELSE LET candidate == first_candidate(response.candidates.val)
             finish_reason == GetAttr(candidate, "finish_reason", None)
             text == extract_text(candidate)
         IN IF not_text(text)
            THEN RaisedHTTP(HTTPException(500, EmptyGenerationDetail(finish_reason)), 1)
            ELSE Returned([answer |-> text,
                           topic |-> req.topic,
                           timestamp |-> t2,
                           conversation_id |-> conversation_id_of(req, t1)])

\* Lines 344-362: the try block of the second definition of ask_question,
\* which reads the scalar text field.  The route decorator of line 228 has
\* already bound the first definition to POST /api/ask, so no request runs
\* this one and no action of the system uses it.
ask_question_second(req, response, t1, t2) ==
    IF ~Truthy(GetAttr(response, "text", None))
    THEN RaisedHTTP(HTTPException(500, <<"Gemini retornou resposta vazia">>), 1)
    ELSE Returned([answer |-> response.text.val,
                   topic |-> req.topic,
                   timestamp |-> t2,
                   conversation_id |-> conversation_id_of(req, t1)])

\* A mutant of except_clauses: the generic clause comes first, so that it
\* also catches the HTTPException raised in the try block, counts it again
\* and wraps str(e), which is "<status>: <detail>".
except_clauses_generic_first(res) ==
    CASE res.kind = "return" ->
           [answers |-> res.answer, failures |-> <<>>, inc |-> res.inc]
      [] res.kind = "http" ->
           [answers |-> <<>>,
            failures |-> <<HTTPException(500,
                ProcessingErrorDetail(<<"500: ">> \o res.exc[1].detail))>>,
            inc |-> res.inc + 1]
      [] res.kind = "exc" ->
           [answers |-> <<>>,
            failures |-> <<HTTPException(500, ProcessingErrorDetail(res.msg))>>,
            inc |-> res.inc + 1]

\* A mutant of except_clauses: the HTTPException is swallowed, not re-raised.
except_clauses_swallow(res) ==
    CASE res.kind = "return" ->
           [answers |-> res.answer, failures |-> <<>>, inc |-> res.inc]
      [] res.kind = "http" ->
           [answers |-> <<>>, failures |-> <<>>, inc |-> res.inc]
      [] res.kind = "exc" ->
           [answers |-> <<>>,
            failures |-> <<HTTPException(500, ProcessingErrorDetail(res.msg))>>,
            inc |-> res.inc + 1]

\* Lines 308-316: HTTPException is re-raised as it is; any other exception
\* is counted and wrapped in a 500 HTTPException.
except_clauses(res) ==
    CASE res.kind = "return" ->
           [answers |-> res.answer, failures |-> <<>>, inc |-> res.inc]
      [] res.kind = "http" ->
           [answers |-> <<>>, failures |-> res.exc, inc |-> res.inc]
      [] res.kind = "exc" ->
           [answers |-> <<>>,
            failures |-> <<HTTPException(500, ProcessingErrorDetail(res.msg))>>,
            inc |-> res.inc + 1]

(* --------------------------- exception handlers ------------------------- *)
\* Lines 408-416.
http_exception_handler(exc, now) ==
    [status |-> exc.status_code,
     body |-> [error |-> exc.detail, timestamp |-> now]]

\* Lines 418-428.
general_exception_handler(msg, now) ==
    [status |-> 500,
     body |-> [error |-> <<"Erro interno do servidor">>, detail |-> msg,
               timestamp |-> now]]

\* The framework's reply to a returned AnswerResponse.
answer_reply(a) == [status |-> 200, body |-> a]

\* The replies sent for the outcome of one run of the handler.
replies_of(out, now) ==
    [i \in 1..Len(out.answers) |-> answer_reply(out.answers[i])]
    \o [i \in 1..Len(out.failures) |-> http_exception_handler(out.failures[i], now)]

(* ------------------------------- the system ----------------------------- *)
Clients == 1..NumClients
NoResult == [kind |-> "none", resp |-> <<>>, msg |-> <<>>]

Init ==
    /\ pc = [r \in Clients |-> "idle"]
    /\ request = [r \in Clients |-> <<>>]
    /\ prompt = [r \in Clients |-> <<>>]
    /\ calls = [r \in Clients |-> 0]
    /\ result = [r \in Clients |-> NoResult]
    /\ answers = [r \in Clients |-> <<>>]
    /\ failures = [r \in Clients |-> <<>>]
    /\ replies = [r \in Clients |-> <<>>]
    /\ GEMINI_ERRORS = 0

\* Lines 243-261: the handler up to the external call, which it makes with
\* the built prompt; the request is one of reqs.
AskStart(r, reqs) ==
    /\ pc[r] = "idle"
    /\ \E req \in reqs :
          /\ request' = [request EXCEPT ![r] = <<req>>]
          /\ prompt' = [prompt EXCEPT ![r] =
                          <<create_educational_prompt(req.question, req.topic)>>]
    /\ pc' = [pc EXCEPT ![r] = "calling"]
    /\ calls' = [calls EXCEPT ![r] = @ + 1]
    /\ UNCHANGED <<result, answers, failures, replies, GEMINI_ERRORS>>

\* The rest of the handler, and the reply, once the outcome of the try block
\* and of the except clauses is known.
Finish(r, ext, out, now) ==
    /\ pc' = [pc EXCEPT ![r] = "done"]
    /\ result' = [result EXCEPT ![r] = ext]
    /\ answers' = [answers EXCEPT ![r] = @ \o out.answers]
    /\ failures' = [failures EXCEPT ![r] = @ \o out.failures]
    /\ replies' = [replies EXCEPT ![r] = @ \o replies_of(out, now)]
    /\ GEMINI_ERRORS' = GEMINI_ERRORS + out.inc
    /\ UNCHANGED <<request, prompt, calls>>

\* generate_content returns one of responses: lines 263-306, then 308-309.
\* t1 is the reading of time.time(), t2 the later one of datetime.now().
GenerateReturns(r, responses) ==
    /\ pc[r] = "calling"
    /\ \E response \in responses, t1, t2 \in Times :
          /\ t1 <= t2
          /\ Finish(r, [kind |-> "ok", resp |-> <<response>>, msg |-> <<>>],
                    except_clauses(normalize(request[r][1], response, t1, t2)), t2)

\* generate_content raises an exception whose str() is one of errors:
\* lines 310-316.
GenerateRaises(r, errors) ==
    /\ pc[r] = "calling"
    /\ \E msg \in errors, now \in Times :
          Finish(r, [kind |-> "raise", resp |-> <<>>, msg |-> msg],
                 except_clauses(RaisedOther(msg)), now)

\* One request at a time, over all the inputs.
Next ==
    \/ AskStart(1, Requests)
    \/ GenerateReturns(1, Responses)
    \/ GenerateRaises(1, Errors)

Spec == Init /\ [][Next]_vars

\* Concurrent requests, over the small inputs.
NextConc ==
    \/ \E r \in Clients : AskStart(r, ConcRequests)
    \/ \E r \in Clients : GenerateReturns(r, ConcResponses)
    \/ \E r \in Clients : GenerateRaises(r, ConcErrors)

SpecConc == Init /\ [][NextConc]_vars

(* ======================= properties of the handler ====================== *)
\* What the properties say of a result, stated from the result's fields
\* and not through the handler's operators.
Done(r) == pc[r] = "done"
Req(r) == request[r][1]
GotResponse(r) == Done(r) /\ result[r].kind = "ok"
GotException(r) == Done(r) /\ result[r].kind = "raise"
Resp(r) == result[r].resp[1]
HasCandidates(response) ==
    response.candidates.tag = "list" /\ Len(response.candidates.val) > 0
First(response) == response.candidates.val[1]
FragmentsOf(c) ==
    IF c.content.tag = "obj" /\ c.content.val.parts.tag = "list"
    THEN c.content.val.parts.val ELSE <<>>
Contribution(p) == IF p.text.tag = "str" THEN p.text.val ELSE <<>>
AllFragmentsEmpty(c) ==
    \A i \in 1..Len(FragmentsOf(c)) : Contribution(FragmentsOf(c)[i]) = <<>>
RECURSIVE ConcatUpTo(_, _)
ConcatUpTo(fs, n) ==
    IF n = 0 THEN <<>> ELSE ConcatUpTo(fs, n - 1) \o Contribution(fs[n])
Concatenation(c) == ConcatUpTo(FragmentsOf(c), Len(FragmentsOf(c)))
ReasonMarker(c) ==
    IF c.finish_reason.tag = "str" THEN c.finish_reason.val ELSE <<"None">>
IsDigit(ch) == ch \in {"0", "1", "2", "3", "4", "5", "6", "7", "8", "9"}

\* C1: an Answer that the handler returns has a non-empty answer text; a
\* result whose first candidate yields the empty text gives no Answer and
\* ends as a failure.
C1_AnswerNeverEmpty ==
    \A r \in Clients :
        /\ \A i \in 1..Len(answers[r]) : answers[r][i].answer # <<>>
        /\ \A i \in 1..Len(replies[r]) :
              replies[r][i].status = 200 => replies[r][i].body.answer # <<>>
        /\ (GotResponse(r) /\ HasCandidates(Resp(r))
              /\ Concatenation(First(Resp(r))) = <<>>)
           => (answers[r] = <<>> /\ Len(failures[r]) = 1)

C1_Witness ==
    \E r \in Clients :
        /\ GotResponse(r) /\ HasCandidates(Resp(r))
        /\ Len(FragmentsOf(First(Resp(r)))) = 2
        /\ Concatenation(First(Resp(r))) = <<>>
        /\ Len(failures[r]) = 1

\* C2: the generation-error counter equals the number of requests that
\* ended in failure (an exception of the external call, no candidates, or
\* an empty generation), each counted once; a step changes it by 0 or by 1
\* and never decreases it.
EndedInFailure(r) ==
    \/ GotException(r)
    \/ GotResponse(r) /\ ~HasCandidates(Resp(r))
    \/ GotResponse(r) /\ HasCandidates(Resp(r))
         /\ Concatenation(First(Resp(r))) = <<>>

C2_ErrorCounter ==
    /\ [](GEMINI_ERRORS = Cardinality({r \in Clients : EndedInFailure(r)}))
    /\ [][/\ GEMINI_ERRORS' >= GEMINI_ERRORS
          /\ GEMINI_ERRORS' <= GEMINI_ERRORS + 1]_vars

C2_Witness ==
    \E r1, r2 \in Clients :
        /\ r1 # r2
        /\ GotResponse(r1) /\ ~HasCandidates(Resp(r1))
        /\ GotException(r2)
        /\ GEMINI_ERRORS = 2

\* C3: a result whose candidate list is empty or None ends in the one
\* failure NoCandidates: status 500, the detail that the model returned no
\* response, and no Answer, whatever the request is.
C3_NoCandidates ==
    \A r \in Clients :
        (GotResponse(r) /\ ~HasCandidates(Resp(r)))
        => /\ answers[r] = <<>>
           /\ failures[r] = <<HTTPException(500, NoCandidatesDetail)>>
           /\ Len(replies[r]) = 1
           /\ replies[r][1].status = 500
           /\ replies[r][1].body.error = NoCandidatesDetail

C3_Witness ==
    \E r \in Clients :
        /\ GotResponse(r)
        /\ Resp(r).candidates.tag = "none"
        /\ Req(r).topic.tag = "str" /\ Req(r).conversation_id.tag = "str"
        /\ failures[r] = <<HTTPException(500, NoCandidatesDetail)>>

\* C4: when the first candidate yields no text (no content, no fragments,
\* or only fragments without text), the handler fails with EmptyGeneration:
\* status 500 and a detail carrying the first candidate's finish_reason, or
\* the marker None when it has none, whatever the later candidates hold.
C4_EmptyGeneration ==
    \A r \in Clients :
        (GotResponse(r) /\ HasCandidates(Resp(r))
           /\ AllFragmentsEmpty(First(Resp(r))))
        => /\ answers[r] = <<>>
           /\ failures[r] = <<HTTPException(500,
                 <<"Modelo nao retornou texto (finish_reason=">>
                 \o ReasonMarker(First(Resp(r))) \o <<")">>)>>
           /\ Len(replies[r]) = 1
           /\ replies[r][1].status = 500

C4_Witness ==
    \E r \in Clients :
        /\ GotResponse(r) /\ HasCandidates(Resp(r))
        /\ Len(Resp(r).candidates.val) = 2
        /\ Concatenation(Resp(r).candidates.val[2]) # <<>>
        /\ First(Resp(r)).finish_reason.tag = "str"
        /\ Len(FragmentsOf(First(Resp(r)))) > 0
        /\ AllFragmentsEmpty(First(Resp(r)))
        /\ Len(failures[r]) = 1

\* C5: when a fragment of the first candidate has text, the handler
\* returns one Answer whose text is the concatenation, in list order, of
\* the texts of the first candidate's fragments, a fragment without text
\* contributing nothing; the Answer's topic is the request's.
C5_AnswerIsConcatenation ==
    \A r \in Clients :
        (GotResponse(r) /\ HasCandidates(Resp(r))
           /\ ~AllFragmentsEmpty(First(Resp(r))))
        => /\ failures[r] = <<>>
           /\ Len(answers[r]) = 1
           /\ answers[r][1].answer = Concatenation(First(Resp(r)))
           /\ answers[r][1].topic = Req(r).topic
           /\ Len(replies[r]) = 1
           /\ replies[r][1].status = 200
           /\ replies[r][1].body.answer = Concatenation(First(Resp(r)))

C5_Witness ==
    \E r \in Clients :
        /\ GotResponse(r) /\ HasCandidates(Resp(r))
        /\ Len(Resp(r).candidates.val) = 2
        /\ Req(r).topic.tag = "str"
        /\ Len(answers[r]) = 1
        /\ answers[r][1].answer = <<"x", "y">>

\* C6 (as claimed): the Answer's conversation_id is the request's whenever
\* the request gave one, the empty string included; otherwise it is the
\* prefix followed by the digits of the clock reading.
C6_ConversationIdEchoed ==
    \A r \in Clients : \A i \in 1..Len(answers[r]) :
        LET cid == answers[r][i].conversation_id
        IN IF Req(r).conversation_id.tag = "str"
           THEN cid = Req(r).conversation_id.val
           ELSE /\ Len(cid) >= 2
                /\ cid[1] = "conv_"
                /\ \A k \in 2..Len(cid) : IsDigit(cid[k])

\* C7 (as claimed): a failure is answered with status 500 and a body that
\* has the three fields error, detail and timestamp.
C7_FailureBodyFields ==
    \A r \in Clients : \A i \in 1..Len(replies[r]) :
        replies[r][i].status # 200
        => /\ replies[r][i].status = 500
           /\ {"error", "detail", "timestamp"} \subseteq DOMAIN replies[r][i].body

\* C8: a request makes exactly one external call and ends with exactly one
\* outcome, one Answer or one 500 failure, and one reply; nothing is
\* answered before the call has ended.
C8_OneCallOneOutcome ==
    \A r \in Clients :
        /\ calls[r] = (IF pc[r] = "idle" THEN 0 ELSE 1)
        /\ Done(r) => /\ Len(answers[r]) + Len(failures[r]) = 1
                      /\ Len(replies[r]) = 1
                      /\ \A i \in 1..Len(failures[r]) :
                            failures[r][i].status_code = 500
        /\ ~Done(r) => answers[r] = <<>> /\ failures[r] = <<>> /\ replies[r] = <<>>

C8_Witness ==
    \E r1, r2 \in Clients :
        /\ Done(r1) /\ Done(r2)
        /\ Len(failures[r1]) = 1 /\ calls[r1] = 1
        /\ Len(answers[r2]) = 1 /\ calls[r2] = 1

\* C9: the prompt sent is the preamble, then the topic line with the
\* literal topic when the request has a non-empty topic and no topic line
\* otherwise, then the question line with the literal question, and it ends
\* with the question line followed by the answer marker; the topic line
\* stands before the question line.
C9_PromptLayout ==
    \A r \in Clients : \A j \in 1..Len(prompt[r]) :
        LET p == prompt[r][j]
            q == Req(r).question
            t == Req(r).topic
            b == Len(base_prompt)
            n == Len(p)
            hasTopic == t.tag = "str" /\ t.val # <<>>
        IN /\ n >= b + Len(q) + 2
           /\ SubSeq(p, 1, b) = base_prompt
           /\ p[n] = AnswerMarker
           /\ SubSeq(p, n - Len(q), n - 1) = q
           /\ p[n - Len(q) - 1] = QuestionLabel
           /\ hasTopic => /\ n = b + Len(t.val) + Len(q) + 4
                          /\ p[b + 1] = TopicLabel
                          /\ SubSeq(p, b + 2, b + 1 + Len(t.val)) = t.val
                          /\ p[b + 2 + Len(t.val)] = "\n"
                          /\ b + 1 < n - Len(q) - 1
           /\ ~hasTopic => /\ n = b + Len(q) + 2
                           /\ \A k \in 1..n : p[k] # TopicLabel

C9_Witness ==
    \E r \in Clients :
        /\ Len(prompt[r]) = 1
        /\ Req(r).topic.tag = "str" /\ Req(r).topic.val # <<>>
        /\ Req(r).topic.val # Req(r).question

\* C10 (as claimed): a result that carries its text in the scalar text
\* field and in no candidate is answered with that text when it is not
\* empty, and fails with EmptyGeneration, never NoCandidates, when the
\* field is empty or None.
C10_ScalarText ==
    \A r \in Clients :
        (GotResponse(r) /\ Resp(r).text.tag # "missing"
           /\ ~HasCandidates(Resp(r)))
        => IF Resp(r).text.tag = "str" /\ Resp(r).text.val # <<>>
           THEN /\ failures[r] = <<>>
                /\ Len(answers[r]) = 1
                /\ answers[r][1].answer = Resp(r).text.val
           ELSE /\ answers[r] = <<>>
                /\ Len(failures[r]) = 1
                /\ failures[r][1].detail # NoCandidatesDetail

====
